---- MODULE Spec2Model ----
(***************************************************************************)
(* Model of src/main.py: the file-backed session middleware, the OAuth2    *)
(* authorization-code flow with silent refresh, the authorization check    *)
(* and the /speak streaming proxy with its heartbeat.                      *)
(*                                                                         *)
(* Spec        requests running through FileSessionMiddleware.dispatch     *)
(*             and the route handlers, up to two of them overlapping.      *)
(* SpecStream  one run of speak.stream_generator against an upstream that  *)
(*             delivers lines while the event-loop clock advances.         *)
(***************************************************************************)
EXTENDS Integers, Sequences, FiniteSets, TLC

\* ---------------------------------------------------------------- bounds
MaxNonce == 1           \* uuid4 values /login can draw
MaxTime == 20
MaxLines == 2           \* upstream lines of a stream run

\* -------------------------------------------------------- value universe
None == "None"                          \* Python None, JSON null, absent parameter
Procs == {"p1", "p2"}                   \* requests in flight at the same time
NoCookie == None

\* secrets.token_hex(16): the k-th identifier it can produce
TokenHex(k) == "m" \o ToString(k)

\* str(uuid.uuid4()): the k-th nonce it can produce
Uuid4(k) == "n" \o ToString(k)

\* the session under study: its identifier is minted by line 65 for a request
\* without a cookie, or presented by a client before any file of that name
\* exists. Sessions share no state, so one identifier shows what each does.
SessionIds == {TokenHex(1)}
Nonces == {Uuid4(k) : k \in 1..MaxNonce}

\* Python truthiness of an optional string
Truthy(v) == v \notin {None, ""}

\* ------------------------------------------------- dict (session mapping)
EmptyMap == [k \in {} |-> None]

\* dict.get(k, None)
Get(m, k) == IF k \in DOMAIN m THEN m[k] ELSE None

\* m[k] = v
Put(m, k, v) == [x \in (DOMAIN m) \cup {k} |-> IF x = k THEN v ELSE m[x]]

\* m.pop(k, None)
Pop(m, k) == [x \in (DOMAIN m) \ {k} |-> m[x]]

\* bool(session.get("user")): the only value ever stored under "user" is
\* minimal_user, a dict with two keys, which is truthy
HasUser(m) == "user" \in DOMAIN m

\* ------------------------------------------------ session files (records)
NoFile == [kind |-> "absent", obj |-> EmptyMap]
EmptyFile == [kind |-> "empty", obj |-> EmptyMap]   \* opened with mode "w", not yet written
CorruptFile == [kind |-> "corrupt", obj |-> EmptyMap]   \* content that is not JSON

\* the Python strings a session mapping holds
Strings ==
    {"", "g1", "g2", "o1", "r1", "oid1", "alice", "blob", "garbage"}
        \cup Nonces

\* JSON text of a scalar: None is written null, a string between quotes
JsonScalar(v) == IF v = None THEN "null" ELSE "\"" \o v \o "\""

\* the scalar a JSON text stands for: null is read as None
ParseScalar(t) ==
    IF t = "null" THEN None ELSE CHOOSE v \in Strings : "\"" \o v \o "\"" = t

\* a faulty variant of JsonDumps: the nested user object is not written
JsonDumps_Flat(m) ==
    [kind |-> "json",
     obj |-> [k \in DOMAIN m \ {"user"} |-> JsonScalar(m[k])]]

\* json.dumps(request.state.session): the keys with the JSON text of their
\* values; the value under "user" is a dict of scalars, the others are scalars
JsonDumps(m) ==
    [kind |-> "json",
     obj |-> [k \in DOMAIN m |->
                 IF k = "user" THEN [f \in DOMAIN m[k] |-> JsonScalar(m[k][f])]
                 ELSE JsonScalar(m[k])]]

\* json.loads(content): ok = FALSE stands for the exception
JsonLoads(c) ==
    IF c.kind = "json"
    THEN [ok |-> TRUE,
          value |-> [k \in DOMAIN c.obj |->
                        IF k = "user" THEN [f \in DOMAIN c.obj[k] |-> ParseScalar(c.obj[k][f])]
                        ELSE ParseScalar(c.obj[k])]]
    ELSE [ok |-> FALSE, value |-> EmptyMap]

\* a faulty variant of LoadSession: a record that does not parse is not
\* replaced by the empty mapping
LoadSession_NoRecover(cookie, files) ==
    IF Truthy(cookie)
    THEN IF files[cookie].kind # "absent"
         THEN IF JsonLoads(files[cookie]).ok
              THEN JsonLoads(files[cookie]).value
              ELSE Put(EmptyMap, "state", "garbage")
         ELSE EmptyMap
    ELSE EmptyMap

\* dispatch, lines 42-56: the mapping a request starts with
LoadSession(cookie, files) ==
    IF Truthy(cookie)
    THEN IF files[cookie].kind # "absent"
         THEN IF JsonLoads(files[cookie]).ok
              THEN JsonLoads(files[cookie]).value
              ELSE EmptyMap
         ELSE EmptyMap
    ELSE EmptyMap

\* ------------------------------------------------------------- variables
VARIABLES
    ENABLE_AUTHENTICATION,  \* line 84, fixed at start-up
    OTHER_AUTH_SCOPES,      \* line 90: TRUE iff the configured string is non-empty
    files,                  \* session_dir: identifier -> file
    req,                    \* per request in flight: its position and request.state
    loggedOut,              \* "no", or how the latest /logout wrote its record, no
                            \* callback having signed a user in and written its
                            \* record since: "clean" with no other request in
                            \* flight, else "raced"
    last,                   \* the handler call that returned in the latest step
    now, upstream, gen      \* the stream run (SpecStream)

vars == <<ENABLE_AUTHENTICATION, OTHER_AUTH_SCOPES, files, req, loggedOut, last,
          now, upstream, gen>>
confVars == <<ENABLE_AUTHENTICATION, OTHER_AUTH_SCOPES>>
streamVars == <<now, upstream, gen>>
sessionVars == <<files, req, loggedOut, last>>

\* ------------------------------------------------ identity provider (MSAL)
EmptyCache == "empty"                   \* msal.SerializableTokenCache() as constructed
ValidBlob == "blob"                     \* cache.serialize(): a blob holding an account
MalformedBlob == "garbage"              \* a blob cache.deserialize rejects

\* a or b
Or(a, b) == IF Truthy(a) THEN a ELSE b

\* a faulty variant of LoadCache: the blob is taken without deserializing it
LoadCache_Unchecked(session) ==
    IF "msal_cache" \in DOMAIN session THEN session["msal_cache"] ELSE EmptyCache

\* _load_cache, lines 124-131: the cache content the MSAL app works with
LoadCache(session) ==
    IF "msal_cache" \in DOMAIN session
    THEN IF session["msal_cache"] = MalformedBlob THEN EmptyCache
         ELSE session["msal_cache"]
    ELSE EmptyCache

\* _save_cache, lines 133-135
SaveCache(session, changed, content) ==
    IF changed THEN Put(session, "msal_cache", content) ELSE session

\* id_token_claims the provider may return: the account's name comes as
\* preferred_username or as upn
ClaimSets ==
    { [oid |-> "oid1", preferred_username |-> "alice", upn |-> None],
      [oid |-> "oid1", preferred_username |-> None, upn |-> "alice"] }

\* outcomes of acquire_token_by_authorization_code (line 178); "raise" also
\* stands for _build_msal_app failing on the way
ExchangeOutcomes ==
    { [kind |-> "raise", claims |-> c] : c \in {CHOOSE c \in ClaimSets : TRUE} }
    \cup { [kind |-> "error", claims |-> c] : c \in {CHOOSE c \in ClaimSets : TRUE} }
    \cup { [kind |-> "ok", claims |-> c] : c \in ClaimSets }

NoExchange == [kind |-> "none", claims |-> CHOOSE c \in ClaimSets : TRUE]

\* what the provider library does on acquire_token_silent for an account
\* (lines 142-146): it raises, returns None, returns an error, returns the
\* cached token, or returns a fresh one and marks the cache changed
SilentOutcomes(cached, fresh) ==
    { [kind |-> k, access_token |-> None, changed |-> FALSE] : k \in {"raise", "none", "error"} }
    \cup { [kind |-> "token", access_token |-> cached, changed |-> FALSE],
           [kind |-> "token", access_token |-> fresh, changed |-> TRUE] }
NoOutcome == [kind |-> "none", access_token |-> None, changed |-> FALSE]
BasicOutcomes == SilentOutcomes("g1", "g2")
OtherOutcomes == SilentOutcomes("o1", "o1")

\* how a refresh ended, as the caller sees it: a token, or an exception
Ended(o) ==
    IF o.kind = "token" THEN [kind |-> "token", access_token |-> o.access_token]
    ELSE [kind |-> "fail", access_token |-> None]

\* get_valid_access_token, lines 137-148. o is what the library does once an
\* account is found; with no account in the cache acquire_token_silent
\* returns None. ok = FALSE stands for the exception raised.
get_valid_access_token(session, o) ==
    LET cache == LoadCache(session)
        result == IF o.kind = "raise" THEN o
                  ELSE IF cache = EmptyCache
                       THEN [kind |-> "none", access_token |-> None, changed |-> FALSE]
                       ELSE o
    IN  IF result.kind \in {"raise", "none", "error"}
        THEN [ok |-> FALSE, access_token |-> None, session |-> session]
        ELSE [ok |-> TRUE, access_token |-> result.access_token,
              session |-> SaveCache(session, result.changed, ValidBlob)]

\* the group-membership call, lines 249-255: it fails (network, status, body)
\* or returns the groups' displayName, None for a group without one
GroupOutcomes ==
    { [kind |-> "fail", value |-> <<>>] }
    \cup { [kind |-> "ok", value |-> v] : v \in {<<>>, <<"staff", None>>} }

NoGroups == [kind |-> "fail", value |-> <<>>]

\* g.get("displayName", "missing-group")
DisplayName(g) == IF g = None THEN "missing-group" ELSE g

\* ------------------------------------------------------ handler results
NoDecision ==
    [authorized |-> FALSE, client_principal_id |-> None, client_principal_name |-> None,
     client_group_names |-> <<>>, access_token |-> None]

\* a response returned by a handler, with the session it leaves in request.state
Resp(session, status, kind) ==
    [session |-> session, status |-> status, kind |-> kind, raised |-> FALSE,
     checked |-> FALSE, decision |-> NoDecision,
     orch |-> FALSE, idp |-> FALSE, exchanged |-> FALSE]

\* an exception no handler catches: it leaves call_next as an exception
Raise(session) == [Resp(session, 500, "unhandled") EXCEPT !.raised = TRUE]

\* ------------------------------------------------------------- handlers
\* login, lines 153-160. build is "ok" or "raise": _build_auth_url builds the
\* MSAL app, which may fail.
login(session, nonce, build) ==
    IF ~ENABLE_AUTHENTICATION THEN Resp(session, 303, "redirect_root")
    ELSE LET s1 == Put(session, "state", nonce)
         IN  IF build = "raise" THEN [Raise(s1) EXCEPT !.idp = TRUE]
             ELSE [Resp(s1, 303, "redirect_idp") EXCEPT !.idp = TRUE]

\* a faulty variant of StateMismatch: an absent state parameter passes
StateMismatch_AbsentOk(q, session) == Truthy(q.state) /\ q.state # Get(session, "state")

\* line 168: request.query_params.get("state") != request.state.session.get("state")
StateMismatch(q, session) == q.state # Get(session, "state")

\* lines 188-192
MinimalUser(claims) ==
    [oid |-> claims.oid,
     preferred_username |-> Or(claims.preferred_username, claims.upn)]

\* a faulty variant of authorized: no test for a session that already holds
\* a user
authorized_NoGuard(session, q, x) ==
    IF ~ENABLE_AUTHENTICATION THEN Resp(session, 303, "redirect_root")
    ELSE IF StateMismatch(q, session) THEN Resp(session, 400, "state_mismatch")
    ELSE IF q.error THEN Resp(session, 400, "provider_error")
    ELSE IF ~Truthy(q.code) THEN Resp(session, 400, "code_missing")
    ELSE IF x.kind = "raise"
         THEN [Raise(session) EXCEPT !.idp = TRUE, !.exchanged = TRUE]
    ELSE IF x.kind = "error"
         THEN [Resp(session, 400, "exchange_error") EXCEPT !.idp = TRUE, !.exchanged = TRUE]
    ELSE LET s1 == Put(session, "user", MinimalUser(x.claims))
             s2 == Put(s1, "graph_access_token", "g1")
             s3 == Put(s2, "refresh_token", "r1")
             s4 == SaveCache(s3, TRUE, ValidBlob)
             s5 == Pop(s4, "state")
         IN  [Resp(s5, 303, "redirect_root") EXCEPT !.idp = TRUE, !.exchanged = TRUE]

\* a faulty variant of authorized: an exchange that ends in an error result
\* consumes the stored nonce
authorized_ConsumeNonce(session, q, x) ==
    IF ~ENABLE_AUTHENTICATION THEN Resp(session, 303, "redirect_root")
    ELSE IF HasUser(session) THEN Resp(session, 303, "redirect_root")
    ELSE IF StateMismatch(q, session) THEN Resp(session, 400, "state_mismatch")
    ELSE IF q.error THEN Resp(session, 400, "provider_error")
    ELSE IF ~Truthy(q.code) THEN Resp(session, 400, "code_missing")
    ELSE IF x.kind = "raise"
         THEN [Raise(session) EXCEPT !.idp = TRUE, !.exchanged = TRUE]
    ELSE IF x.kind = "error"
         THEN [Resp(Pop(session, "state"), 400, "exchange_error")
                  EXCEPT !.idp = TRUE, !.exchanged = TRUE]
    ELSE LET s1 == Put(session, "user", MinimalUser(x.claims))
             s2 == Put(s1, "graph_access_token", "g1")
             s3 == Put(s2, "refresh_token", "r1")
             s4 == SaveCache(s3, TRUE, ValidBlob)
             s5 == Pop(s4, "state")
         IN  [Resp(s5, 303, "redirect_root") EXCEPT !.idp = TRUE, !.exchanged = TRUE]

\* authorized, lines 162-198. q is the query string, x the outcome of the
\* code exchange.
authorized(session, q, x) ==
    IF ~ENABLE_AUTHENTICATION THEN Resp(session, 303, "redirect_root")
    ELSE IF HasUser(session) THEN Resp(session, 303, "redirect_root")
    ELSE IF StateMismatch(q, session) THEN Resp(session, 400, "state_mismatch")
    ELSE IF q.error THEN Resp(session, 400, "provider_error")
    ELSE IF ~Truthy(q.code) THEN Resp(session, 400, "code_missing")
    ELSE IF x.kind = "raise"
         THEN [Raise(session) EXCEPT !.idp = TRUE, !.exchanged = TRUE]
    ELSE IF x.kind = "error"
         THEN [Resp(session, 400, "exchange_error") EXCEPT !.idp = TRUE, !.exchanged = TRUE]
    ELSE LET s1 == Put(session, "user", MinimalUser(x.claims))
             s2 == Put(s1, "graph_access_token", "g1")
             s3 == Put(s2, "refresh_token", "r1")
             s4 == SaveCache(s3, TRUE, ValidBlob)
             s5 == Pop(s4, "state")
         IN  [Resp(s5, 303, "redirect_root") EXCEPT !.idp = TRUE, !.exchanged = TRUE]

\* a faulty variant of logout: only the user entry is removed
logout_UserOnly(session) == Resp(Pop(session, "user"), 303, "redirect_logout")

\* logout, lines 200-204: request.state.session.clear()
logout(session) == Resp(EmptyMap, 303, "redirect_logout")

\* a faulty variant of PickAccessToken: the basic token is preferred
PickAccessToken_BasicFirst(other_access_token, graph_access_token) ==
    IF Truthy(graph_access_token) THEN graph_access_token ELSE other_access_token

\* line 245
PickAccessToken(other_access_token, graph_access_token) ==
    IF Truthy(other_access_token) THEN other_access_token ELSE graph_access_token

\* a faulty variant of Groups: a failed lookup leaves a group in the list
Groups_OnFailure(graph_access_token, g) ==
    IF ~Truthy(graph_access_token) THEN <<>>
    ELSE IF g.kind = "ok" THEN [i \in 1..Len(g.value) |-> DisplayName(g.value[i])]
    ELSE <<DisplayName(None)>>

\* lines 246-257: groups stays [] unless the lookup is made and succeeds
Groups(graph_access_token, g) ==
    IF Truthy(graph_access_token) /\ g.kind = "ok"
    THEN [i \in 1..Len(g.value) |-> DisplayName(g.value[i])]
    ELSE <<>>

\* check_authorization, lines 209-264. b and o are what the provider library
\* does on the two silent refreshes, g what the group endpoint does.
check_authorization(session, b, o, g) ==
    IF ~ENABLE_AUTHENTICATION
    THEN [session |-> session, idp |-> FALSE,
          decision |-> [authorized |-> TRUE, client_principal_id |-> "no-auth",
                        client_principal_name |-> "anonymous",
                        client_group_names |-> <<>>, access_token |-> None]]
    ELSE IF ~HasUser(session)
    THEN [session |-> session, idp |-> FALSE, decision |-> NoDecision]
    ELSE LET user == session["user"]
             r1 == get_valid_access_token(session, b)
             s1 == IF r1.ok THEN Put(r1.session, "graph_access_token", r1.access_token)
                   ELSE session
             graph_access_token ==
                   IF r1.ok THEN r1.access_token ELSE Get(session, "graph_access_token")
             r2 == get_valid_access_token(s1, o)
             s2 == IF OTHER_AUTH_SCOPES /\ r2.ok
                   THEN Put(r2.session, "other_access_token", r2.access_token)
                   ELSE s1
             other_access_token ==
                   IF ~OTHER_AUTH_SCOPES THEN None
                   ELSE IF r2.ok THEN r2.access_token
                   ELSE Get(s1, "other_access_token")
         IN  [session |-> s2, idp |-> TRUE,
              decision |-> [authorized |-> TRUE,
                            client_principal_id |-> user.oid,
                            client_principal_name |-> Or(user.preferred_username, None),
                            client_group_names |-> Groups(graph_access_token, g),
                            access_token |->
                                PickAccessToken(other_access_token, graph_access_token)]]

\* a faulty variant of PageGate: ENABLE_AUTHENTICATION is not consulted
PageGate_NoFlag(session) == ~HasUser(session)

\* lines 271 and 277: the gate of the two page routes
PageGate(session) == ENABLE_AUTHENTICATION /\ ~HasUser(session)

\* serve_index, lines 269-273
serve_index(session) ==
    IF PageGate(session) THEN Resp(session, 303, "redirect_login")
    ELSE Resp(session, 200, "file")

\* serve_favicon, lines 275-279
serve_favicon(session) ==
    IF PageGate(session) THEN Resp(session, 303, "redirect_login")
    ELSE Resp(session, 200, "file")

\* request bodies of /speak: json = FALSE is a body request.json() rejects,
\* spokenText = None a JSON object without the key
Bodies ==
    { [json |-> FALSE, spokenText |-> None] }
    \cup { [json |-> TRUE, spokenText |-> t] : t \in {None, "", "hi"} }

\* a faulty variant of speak: the unauthorized answer is a bare HTTPException
speak_Bare401(session, body, b, o, g) ==
    IF ~body.json THEN Raise(session)
    ELSE IF ~Truthy(body.spokenText) THEN Resp(session, 400, "http_exception")
    ELSE LET a == check_authorization(session, b, o, g)
         IN  IF ~a.decision.authorized
             THEN [Resp(a.session, 401, "http_exception") EXCEPT
                       !.checked = TRUE, !.decision = a.decision, !.idp = a.idp]
             ELSE [Resp(a.session, 200, "stream") EXCEPT
                       !.checked = TRUE, !.decision = a.decision, !.idp = a.idp,
                       !.orch = TRUE]

\* a faulty variant of speak: the Authorization Check runs before the
\* question is validated
speak_CheckFirst(session, body, b, o, g) ==
    IF ~body.json THEN Raise(session)
    ELSE LET a == check_authorization(session, b, o, g)
         IN  IF ~Truthy(body.spokenText)
             THEN [Resp(a.session, 400, "http_exception") EXCEPT !.idp = a.idp]
             ELSE IF ~a.decision.authorized
             THEN [Resp(a.session, 401, "chat_answer") EXCEPT
                       !.checked = TRUE, !.decision = a.decision, !.idp = a.idp]
             ELSE [Resp(a.session, 200, "stream") EXCEPT
                       !.checked = TRUE, !.decision = a.decision, !.idp = a.idp,
                       !.orch = TRUE]

\* speak, lines 281-341, up to the StreamingResponse it returns; the stream
\* itself is stream_generator (SpecStream)
speak(session, body, b, o, g) ==
    IF ~body.json THEN Raise(session)
    ELSE IF ~Truthy(body.spokenText) THEN Resp(session, 400, "http_exception")
    ELSE LET a == check_authorization(session, b, o, g)
         IN  IF ~a.decision.authorized
             THEN [Resp(a.session, 401, "chat_answer") EXCEPT
                       !.checked = TRUE, !.decision = a.decision, !.idp = a.idp]
             ELSE [Resp(a.session, 200, "stream") EXCEPT
                       !.checked = TRUE, !.decision = a.decision, !.idp = a.idp,
                       !.orch = TRUE]

\* ------------------------------------------------ stream_generator state
HEARTBEAT_INTERVAL == 15                \* line 330, seconds
Heartbeat == ":\n\n"                    \* line 334
Statuses == {200, 204, 500}             \* resp.status_code

\* upstream: the orchestrator's response. status is resp.status_code; sent
\* counts the lines the orchestrator has emitted and last_emit is when it
\* emitted the latest one (or answered with its status); buffer holds the lines
\* emitted and not yet handed to the loop by aiter_lines, each with silent,
\* whether the orchestrator had emitted nothing for longer than the heartbeat
\* interval before it; closed, the orchestrator has ended its response.
NoUpstream == [status |-> 0, sent |-> 0, last_emit |-> 0, buffer |-> <<>>, closed |-> FALSE]

\* gen: the generator's locals (last_yield, hearbeatcount, line, and t, the
\* value of now read at line 329), its position, and what it has yielded.
\* pc: "off", "connect" (line 316, awaiting the status), "wait" (line 328,
\* awaiting a line), "heartbeat" (line 330), "line" (line 336), "done".
\* Observed with it: frames, the frames yielded so far; last_beat, when the
\* latest heartbeat was yielded; quiet_since, when aiter_lines handed over its
\* latest line (or the status arrived); gap, whether the line in hand was handed over after the
\* loop had received nothing for longer than the heartbeat interval; silent,
\* the same measured where the orchestrator emitted it; received, the lines
\* aiter_lines has handed over so far.
GenStart ==
    [pc |-> "connect", last_yield |-> 0, hearbeatcount |-> 0, line |-> "", t |-> 0,
     frames |-> <<>>, last_beat |-> 0, quiet_since |-> 0, gap |-> FALSE,
     silent |-> FALSE, received |-> <<>>]

\* a frame as the client receives it
Frame(kind, text) ==
    [kind |-> kind, text |-> text, gap |-> gen.gap, silent |-> gen.silent]

\* the n-th line the orchestrator sends, when it is not an empty line
LineText(n) == "data: " \o ToString(n)

\* line 324
ErrorLine(status) == "Error: " \o ToString(status)

\* a faulty variant of HeartbeatDue: twice the interval
HeartbeatDue_Twice(t, last_yield) == t - last_yield > 2 * HEARTBEAT_INTERVAL

\* line 330
HeartbeatDue(t, last_yield) == t - last_yield > HEARTBEAT_INTERVAL

\* ------------------------------------------------------ request machine
Routes == {"login", "callback", "logout", "index", "favicon", "speak"}

NoQuery == [state |-> None, error |-> FALSE, code |-> None]
\* query strings of the callback: state is absent, a nonce, or another string
Queries == [state : {None, "forged"} \cup Nonces, error : BOOLEAN, code : {None, "code"}]
NoBody == [json |-> TRUE, spokenText |-> None]
NoInputs == [q |-> NoQuery, body |-> NoBody, b |-> Ended(NoOutcome), o |-> Ended(NoOutcome),
             g |-> "fail", x |-> "none"]

\* pc: "idle", "handler" (session loaded, the handler not yet returned),
\* "write" (call_next returned a response and the session file is open for
\* writing).
\* session is request.state.session; exchanged, the handler was the callback
\* and it signed a user in.
IdleReq ==
    [pc |-> "idle", route |-> "none", cookie |-> NoCookie, session_id |-> NoCookie,
     session |-> EmptyMap, exchanged |-> FALSE]

\* last: which request's handler just returned, what it was given (session is
\* the mapping it started with) and what it returned
NoCall ==
    [p |-> None, route |-> "none", cookie |-> NoCookie, session |-> EmptyMap,
     inputs |-> NoInputs, res |-> Resp(EmptyMap, 0, "none")]

\* identifiers token_hex can still produce: no file bears them and no request
\* in flight presented them (a minted identifier collides with no other)
Unminted ==
    {i \in SessionIds : files[i].kind = "absent" /\ \A p \in Procs : req[p].cookie # i}

\* identifiers minted for a request whose response, which carries the cookie,
\* has not been returned yet: no client can present them
Unissued ==
    {req[p].session_id : p \in {r \in Procs : req[r].pc = "write" /\ ~Truthy(req[r].cookie)}}

\* requests that will mint an identifier when they reach line 65
WillMint == {p \in Procs : req[p].pc = "handler" /\ ~Truthy(req[p].cookie)}

Init ==
    /\ ENABLE_AUTHENTICATION \in BOOLEAN
    /\ OTHER_AUTH_SCOPES \in BOOLEAN
    /\ files = [i \in SessionIds |-> NoFile]
    /\ req = [p \in Procs |-> IdleReq]
    /\ loggedOut = "no"
    /\ last = NoCall
    /\ now = 0
    /\ upstream = NoUpstream
    /\ gen = [GenStart EXCEPT !.pc = "off"]

\* dispatch, lines 42-59: a request arrives and its session is loaded. The
\* load does not look at the route, which the handler's action names.
Dispatch_Load(p) ==
    /\ req[p].pc = "idle"
    /\ \E cookie \in {NoCookie} \cup (SessionIds \ Unissued) :
         /\ cookie \notin Unminted \cup {NoCookie}
            \/ Cardinality(WillMint) < Cardinality(Unminted)
         /\ req' = [req EXCEPT ![p] =
                       [IdleReq EXCEPT !.pc = "handler", !.cookie = cookie,
                                       !.session = LoadSession(cookie, files)]]
    /\ last' = NoCall
    /\ UNCHANGED <<files, loggedOut, confVars, streamVars>>

\* lines 61-75: call_next runs the route's handler. When the handler raises
\* what no exception handler takes, the exception leaves dispatch at line 61
\* and the request is over; otherwise call_next returns the response, an
\* identifier is minted when the request brought none, and the session file
\* is opened with mode "w", which empties it
Returned(p, route, res, inputs) ==
    /\ IF res.raised
       THEN /\ req' = [req EXCEPT ![p] = IdleReq]
            /\ files' = files
       ELSE \E sid \in (IF Truthy(req[p].cookie) THEN {req[p].cookie} ELSE Unminted) :
               /\ req' = [req EXCEPT ![p].session = res.session, ![p].route = route,
                                     ![p].session_id = sid, ![p].pc = "write",
                                     ![p].exchanged = res.exchanged /\ res.status = 303]
               /\ files' = [files EXCEPT ![sid] = EmptyFile]
    /\ last' = [p |-> p, route |-> route, cookie |-> req[p].cookie,
                session |-> req[p].session, inputs |-> inputs, res |-> res]
    /\ loggedOut' = loggedOut

Login(p) ==
    /\ req[p].pc = "handler"
    /\ \E nonce \in Nonces, build \in {"ok", "raise"} :
         Returned(p, "login", login(req[p].session, nonce, build), NoInputs)
    /\ UNCHANGED <<confVars, streamVars>>

\* whether this callback gets as far as the code exchange (line 178)
Exchanges(p, q) ==
    /\ ENABLE_AUTHENTICATION /\ ~HasUser(req[p].session)
    /\ ~StateMismatch(q, req[p].session) /\ ~q.error /\ Truthy(q.code)

Authorized(p) ==
    /\ req[p].pc = "handler"
    /\ \E q \in Queries :
         \E x \in (IF Exchanges(p, q) THEN ExchangeOutcomes ELSE {NoExchange}) :
            Returned(p, "callback", authorized(req[p].session, q, x),
                     [NoInputs EXCEPT !.q = q, !.x = x.kind])
    /\ UNCHANGED <<confVars, streamVars>>

Logout(p) ==
    /\ req[p].pc = "handler"
    /\ Returned(p, "logout", logout(req[p].session), NoInputs)
    /\ UNCHANGED <<confVars, streamVars>>

ServeIndex(p) ==
    /\ req[p].pc = "handler"
    /\ Returned(p, "index", serve_index(req[p].session), NoInputs)
    /\ UNCHANGED <<confVars, streamVars>>

ServeFavicon(p) ==
    /\ req[p].pc = "handler"
    /\ Returned(p, "favicon", serve_favicon(req[p].session), NoInputs)
    /\ UNCHANGED <<confVars, streamVars>>

\* whether this /speak request gets as far as the silent refreshes (line 231)
Refreshes(p, body) ==
    body.json /\ Truthy(body.spokenText) /\ ENABLE_AUTHENTICATION /\ HasUser(req[p].session)

Speak(p) ==
    /\ req[p].pc = "handler"
    /\ \E body \in Bodies :
         \E b \in (IF Refreshes(p, body) THEN BasicOutcomes ELSE {NoOutcome}),
            o \in (IF Refreshes(p, body) /\ OTHER_AUTH_SCOPES THEN OtherOutcomes ELSE {NoOutcome}),
            g \in (IF Refreshes(p, body) THEN GroupOutcomes ELSE {NoGroups}) :
              Returned(p, "speak", speak(req[p].session, body, b, o, g),
                       [NoInputs EXCEPT !.body = body, !.b = Ended(b), !.o = Ended(o),
                                        !.g = g.kind])
    /\ UNCHANGED <<confVars, streamVars>>

\* a faulty variant of Dispatch_Write: the request ends without the write
Dispatch_Write_Lost(p) ==
    /\ req[p].pc = "write"
    /\ req' = [req EXCEPT ![p] = IdleReq]
    /\ last' = NoCall
    /\ UNCHANGED <<files, loggedOut, confVars, streamVars>>

\* a faulty variant of Dispatch_Write: the mapping is merged into the record
\* found on disk instead of replacing it
Dispatch_Write_Merge(p) ==
    /\ req[p].pc = "write"
    /\ LET old == LoadSession(req[p].session_id, files)
           new == req[p].session
       IN  files' = [files EXCEPT ![req[p].session_id] =
                        JsonDumps([k \in DOMAIN old \cup DOMAIN new |->
                                      IF k \in DOMAIN new THEN new[k] ELSE old[k]])]
    /\ req' = [req EXCEPT ![p] = IdleReq]
    /\ last' = NoCall
    /\ loggedOut' = IF req[p].route = "logout"
                    THEN IF \A r \in Procs \ {p} : req[r].pc = "idle"
                         THEN "clean" ELSE "raced"
                    ELSE IF req[p].exchanged THEN "no"
                    ELSE loggedOut
    /\ UNCHANGED <<confVars, streamVars>>

\* lines 76-77: write the mapping, close the file, return the response; the
\* request is over and its request.state is dropped
Dispatch_Write(p) ==
    /\ req[p].pc = "write"
    /\ files' = [files EXCEPT ![req[p].session_id] = JsonDumps(req[p].session)]
    /\ req' = [req EXCEPT ![p] = IdleReq]
    /\ last' = NoCall
    /\ loggedOut' = IF req[p].route = "logout"
                    THEN IF \A r \in Procs \ {p} : req[r].pc = "idle"
                         THEN "clean" ELSE "raced"
                    ELSE IF req[p].exchanged THEN "no"
                    ELSE loggedOut
    /\ UNCHANGED <<confVars, streamVars>>

Next ==
    \E p \in Procs :
        \/ Dispatch_Load(p)
        \/ Login(p)
        \/ Authorized(p)
        \/ Logout(p)
        \/ ServeIndex(p)
        \/ ServeFavicon(p)
        \/ Speak(p)
        \/ Dispatch_Write(p)

Spec == Init /\ [][Next]_vars

\* ------------------------------------------------------ one client alone
\* session mappings found in a record when the program starts: what an earlier
\* run wrote, with the msal_cache blob as it was written, damaged since, or
\* missing, or with no refresh token in the provider's answer (line 196)
SignedIn ==
    Put(Put(Put(Put(EmptyMap, "user", [oid |-> "oid1", preferred_username |-> "alice"]),
                "graph_access_token", "g1"), "refresh_token", "r1"),
        "msal_cache", ValidBlob)

StoredSessions ==
    { SignedIn,
      Put(SignedIn, "msal_cache", MalformedBlob),
      Pop(SignedIn, "msal_cache"),
      Put(SignedIn, "refresh_token", None),
      Put(Put(EmptyMap, "state", Uuid4(1)), "msal_cache", MalformedBlob) }

\* the record the client's cookie names, as the program finds it at start-up
StoredFiles == {NoFile, CorruptFile} \cup {JsonDumps(m) : m \in StoredSessions}

\* the one client whose requests follow each other
Client == CHOOSE p \in Procs : TRUE

InitSerial ==
    /\ ENABLE_AUTHENTICATION \in BOOLEAN
    /\ OTHER_AUTH_SCOPES \in BOOLEAN
    /\ files \in [SessionIds -> StoredFiles]
    /\ req = [p \in Procs |-> IdleReq]
    /\ loggedOut = "no"
    /\ last = NoCall
    /\ now = 0
    /\ upstream = NoUpstream
    /\ gen = [GenStart EXCEPT !.pc = "off"]

NextSerial ==
    \/ Dispatch_Load(Client)
    \/ Login(Client)
    \/ Authorized(Client)
    \/ Logout(Client)
    \/ ServeIndex(Client)
    \/ ServeFavicon(Client)
    \/ Speak(Client)
    \/ Dispatch_Write(Client)

SpecSerial == InitSerial /\ [][NextSerial]_vars

\* ------------------------------------------------------- stream machine
\* the generator reads neither the configuration nor the session
InitStream ==
    /\ ENABLE_AUTHENTICATION = FALSE
    /\ OTHER_AUTH_SCOPES = FALSE
    /\ files = [i \in SessionIds |-> NoFile]
    /\ req = [p \in Procs |-> IdleReq]
    /\ loggedOut = "no"
    /\ last = NoCall
    /\ now = 0
    /\ upstream = NoUpstream
    /\ gen = GenStart

\* the event-loop clock advances
Tick ==
    /\ gen.pc \notin {"off", "done"}
    /\ now < MaxTime
    /\ now' = now + 1
    /\ UNCHANGED <<upstream, gen, confVars, sessionVars>>

\* a faulty variant of Connect: after the error line the generator goes on to
\* the loop over the lines of the response
Connect_NoReturn ==
    /\ gen.pc = "connect"
    /\ \E status \in Statuses :
         /\ upstream' = [upstream EXCEPT !.status = status, !.last_emit = now]
         /\ gen' = IF status # 200
                   THEN [gen EXCEPT !.pc = "wait", !.last_yield = now,
                                    !.quiet_since = now,
                                    !.frames = Append(@, Frame("error", ErrorLine(status)))]
                   ELSE [gen EXCEPT !.pc = "wait", !.last_yield = now,
                                    !.quiet_since = now]
    /\ UNCHANGED <<now, confVars, sessionVars>>

\* lines 316-326: the status arrives; anything but 200 ends the stream with
\* one error line
Connect ==
    /\ gen.pc = "connect"
    /\ \E status \in Statuses :
         /\ upstream' = [upstream EXCEPT !.status = status, !.last_emit = now]
         /\ gen' = IF status # 200
                   THEN [gen EXCEPT !.pc = "done",
                                    !.frames = Append(@, Frame("error", ErrorLine(status)))]
                   ELSE [gen EXCEPT !.pc = "wait", !.last_yield = now,
                                    !.quiet_since = now]
    /\ UNCHANGED <<now, confVars, sessionVars>>

\* line 316, the other end of client.stream: the orchestrator emits a line
\* of its response body, empty or not, whatever its status and whatever the
\* generator is doing
Emit ==
    /\ upstream.status # 0
    /\ ~upstream.closed
    /\ upstream.sent < MaxLines
    /\ \E text \in {"", LineText(upstream.sent + 1)} :
         upstream' = [upstream EXCEPT
                          !.sent = @ + 1,
                          !.last_emit = now,
                          !.buffer = Append(@, [text |-> text,
                                                silent |-> now - upstream.last_emit
                                                               > HEARTBEAT_INTERVAL])]
    /\ UNCHANGED <<now, gen, confVars, sessionVars>>

\* line 316, the other end of client.stream: the orchestrator ends its response
Close ==
    /\ upstream.status # 0
    /\ ~upstream.closed
    /\ upstream' = [upstream EXCEPT !.closed = TRUE]
    /\ UNCHANGED <<now, gen, confVars, sessionVars>>

\* lines 328-330: aiter_lines hands over the next line and now is read
ReceiveLine ==
    /\ gen.pc = "wait"
    /\ upstream.buffer # <<>>
    /\ upstream' = [upstream EXCEPT !.buffer = Tail(@)]
    /\ gen' = [gen EXCEPT !.line = Head(upstream.buffer).text, !.t = now,
                          !.received = Append(@, Head(upstream.buffer).text),
                          !.gap = now - gen.quiet_since > HEARTBEAT_INTERVAL,
                          !.silent = Head(upstream.buffer).silent,
                          !.quiet_since = now,
                          !.pc = IF HeartbeatDue(now, gen.last_yield)
                                 THEN "heartbeat" ELSE "line"]
    /\ UNCHANGED <<now, confVars, sessionVars>>

\* lines 331-335: the heartbeat is yielded and taken by the client
YieldHeartbeat ==
    /\ gen.pc = "heartbeat"
    /\ gen' = [gen EXCEPT !.hearbeatcount = @ + 1,
                          !.frames = Append(@, Frame("heartbeat", Heartbeat)),
                          !.last_yield = gen.t,
                          !.last_beat = now,
                          !.pc = "line"]
    /\ UNCHANGED <<now, upstream, confVars, sessionVars>>

\* a faulty variant of YieldLine: a line goes through twice when a heartbeat
\* went before it
YieldLine_Twice ==
    /\ gen.pc = "line"
    /\ gen' = IF gen.line # ""
              THEN [gen EXCEPT !.frames =
                                   IF gen.last_yield = gen.t /\ gen.hearbeatcount > 0
                                   THEN Append(Append(@, Frame("line", gen.line)),
                                               Frame("line", gen.line))
                                   ELSE Append(@, Frame("line", gen.line)),
                               !.last_yield = gen.t,
                               !.pc = "wait"]
              ELSE [gen EXCEPT !.pc = "wait"]
    /\ UNCHANGED <<now, upstream, confVars, sessionVars>>

\* lines 336-339: a non-empty line is yielded and taken by the client
YieldLine ==
    /\ gen.pc = "line"
    /\ gen' = IF gen.line # ""
              THEN [gen EXCEPT !.frames = Append(@, Frame("line", gen.line)),
                               !.last_yield = gen.t,
                               !.pc = "wait"]
              ELSE [gen EXCEPT !.pc = "wait"]
    /\ UNCHANGED <<now, upstream, confVars, sessionVars>>

\* line 328: aiter_lines is exhausted, the async for ends and the generator
\* returns
EndOfStream ==
    /\ gen.pc = "wait"
    /\ upstream.closed
    /\ upstream.buffer = <<>>
    /\ gen' = [gen EXCEPT !.pc = "done"]
    /\ UNCHANGED <<now, upstream, confVars, sessionVars>>

NextStream ==
    \/ Tick
    \/ Connect
    \/ Emit
    \/ Close
    \/ ReceiveLine
    \/ YieldHeartbeat
    \/ YieldLine
    \/ EndOfStream

SpecStream == InitStream /\ [][NextStream]_vars

\* the event loop resumes the generator whenever it can go on: when a line is
\* waiting, when the client takes a frame, when the response has ended
FairStream ==
    /\ SpecStream
    /\ WF_vars(ReceiveLine)
    /\ WF_vars(YieldHeartbeat)
    /\ WF_vars(YieldLine)
    /\ WF_vars(EndOfStream)

\* ------------------------------------------------------------ properties
\* what a handler call was given and what it returned
CallbackCall == last.route = "callback" /\ ENABLE_AUTHENTICATION
SpeakCall == last.route = "speak" /\ last.inputs.body.json
Question == Truthy(last.inputs.body.spokenText)

\* C1 as stated: with authentication enabled, a callback whose state parameter
\* differs from the nonce stored in the session gets 400 and creates no user
\* entry, whatever the session holds.
C1_MismatchAlways400 ==
    (CallbackCall /\ last.inputs.q.state # Get(last.session, "state"))
        => /\ last.res.status = 400
           /\ HasUser(last.res.session) => HasUser(last.session)

\* C1, amended: with authentication enabled, a callback whose state parameter
\* differs from the nonce stored in the session gets 400 when the session has
\* no user entry, and the 303 redirect to / when it has one; either way the
\* session is left as it was, no user entry is created and no code is
\* exchanged.
C1_MismatchRejected ==
    (CallbackCall /\ last.inputs.q.state # Get(last.session, "state"))
        => /\ last.res.status = IF HasUser(last.session) THEN 303 ELSE 400
           /\ last.res.kind = IF HasUser(last.session) THEN "redirect_root"
                              ELSE "state_mismatch"
           /\ last.res.session = last.session
           /\ ~last.res.exchanged
           /\ ~last.res.raised

\* a mismatching callback that brings a code, on a session without a user
C1_Witness ==
    /\ CallbackCall
    /\ last.inputs.q.state # Get(last.session, "state")
    /\ Truthy(Get(last.session, "state"))
    /\ last.inputs.q.code # None
    /\ ~last.inputs.q.error
    /\ ~HasUser(last.session)
    /\ last.res.status = 400

\* C2 as stated: every request that entered dispatch leaves it through the
\* write of its session mapping to its record, whether its handler returned
\* or raised.
C2_WriteWhateverHandler ==
    [][\A p \in Procs :
          (req[p].pc # "idle" /\ req'[p].pc = "idle")
              => /\ req[p].pc = "write"
                 /\ files'[req[p].session_id] = JsonDumps(req[p].session)]_vars

\* C2, amended: dispatch loads the record before the handler runs, the handler
\* runs on the mapping loaded, and the mapping the handler left is written to
\* the record after the handler, when call_next returned a response (an
\* HTTPException included); when the handler raised anything else, dispatch
\* ends without opening or writing the record.
C2_LoadHandlerWrite ==
    [][\A p \in Procs :
          /\ (req[p].pc = "idle" /\ req'[p] # req[p])
                => /\ req'[p].pc = "handler"
                   /\ req'[p].session = LoadSession(req'[p].cookie, files)
                   /\ files' = files
          /\ (req[p].pc = "handler" /\ req'[p] # req[p])
                => /\ last'.p = p
                   /\ last'.session = req[p].session
                   /\ IF last'.res.raised
                      THEN req'[p].pc = "idle" /\ files' = files
                      ELSE /\ req'[p].pc = "write"
                           /\ req'[p].session = last'.res.session
                           /\ files'[req'[p].session_id] = EmptyFile
          /\ (req[p].pc = "write" /\ req'[p] # req[p])
                => /\ req'[p].pc = "idle"
                   /\ files'[req[p].session_id] = JsonDumps(req[p].session)]_vars

\* a handler has raised an HTTPException and its request goes on to the write
C2_Witness ==
    \E p \in Procs :
        /\ last.p = p
        /\ last.res.kind = "http_exception"
        /\ req[p].pc = "write"
        /\ req[p].session = last.session

\* C3: while the orchestrator's stream is open with status 200 and the loop
\* has been waiting for a line for more than the heartbeat interval (and one
\* second for the frame to go out), a heartbeat has been sent within that
\* time.
C3_HeartbeatWhileSilent ==
    (/\ gen.pc = "wait"
     /\ upstream.status = 200
     /\ ~upstream.closed
     /\ upstream.buffer = <<>>
     /\ now - gen.quiet_since > HEARTBEAT_INTERVAL + 1)
        => /\ gen.hearbeatcount > 0
           /\ now - gen.last_beat <= HEARTBEAT_INTERVAL + 1

\* C4 as stated: a real line the orchestrator emitted after emitting nothing
\* for longer than the heartbeat interval reaches the client right after a
\* heartbeat frame.
C4_HeartbeatAfterSilentUpstream ==
    \A k \in 1..Len(gen.frames) :
        (gen.frames[k].kind = "line" /\ gen.frames[k].silent)
            => k > 1 /\ gen.frames[k - 1].kind = "heartbeat"

\* C4, amended: a real line handed to the loop after the loop had received no
\* line for longer than the heartbeat interval reaches the client right after
\* a heartbeat frame, which follows the previously forwarded frame.
C4_HeartbeatBeforeLateLine ==
    \A k \in 1..Len(gen.frames) :
        (gen.frames[k].kind = "line" /\ gen.frames[k].gap)
            => k > 1 /\ gen.frames[k - 1].kind = "heartbeat"

\* a line, then a heartbeat and a line that came after a long silence
C4_Witness ==
    /\ Len(gen.frames) = 3
    /\ gen.frames[1].kind = "line"
    /\ gen.frames[2].kind = "heartbeat"
    /\ gen.frames[3].kind = "line"
    /\ gen.frames[3].gap

\* the Authorization Check refuses the mapping whatever the provider answers
Unauthorized(session) ==
    \A b \in BasicOutcomes, o \in OtherOutcomes, g \in GroupOutcomes :
        ~check_authorization(session, b, o, g).decision.authorized

C6_UnauthenticatedSpeak ==
    (SpeakCall /\ ENABLE_AUTHENTICATION /\ Question /\ ~HasUser(last.session))
        => /\ last.res.status = 401
           /\ last.res.kind = "chat_answer"
           /\ ~last.res.orch
           /\ ~last.res.raised

C6_Witness ==
    /\ SpeakCall
    /\ ENABLE_AUTHENTICATION
    /\ Question
    /\ ~HasUser(last.session)
    /\ Truthy(last.cookie)
    /\ last.res.status = 401

Anonymous ==
    [authorized |-> TRUE, client_principal_id |-> "no-auth",
     client_principal_name |-> "anonymous", client_group_names |-> <<>>,
     access_token |-> None]

\* session contents a record may hold: nothing, a pending login, a signed-in
\* user with its tokens
SampleSessions ==
    { EmptyMap,
      Put(EmptyMap, "state", Uuid4(1)),
      Put(Put(Put(EmptyMap, "user", MinimalUser(CHOOSE c \in ClaimSets : TRUE)),
              "graph_access_token", "g1"), "msal_cache", ValidBlob) }

\* C8: with authentication disabled, whatever the session holds and whatever
\* cookie came, the Authorization Check returns the anonymous decision with no
\* token, and / and /favicon.ico serve their file, never the redirect to
\* /login.
C8_AuthDisabled ==
    ~ENABLE_AUTHENTICATION
        => /\ \A s \in SampleSessions \cup {req[p].session : p \in Procs} :
                /\ \A b \in BasicOutcomes, o \in OtherOutcomes, g \in GroupOutcomes :
                      /\ check_authorization(s, b, o, g).decision = Anonymous
                      /\ ~check_authorization(s, b, o, g).idp
                /\ serve_index(s).kind = "file"
                /\ serve_favicon(s).kind = "file"
           /\ (SpeakCall /\ last.res.checked) => last.res.decision = Anonymous
           /\ last.route \in {"index", "favicon"}
                 => last.res.status = 200 /\ last.res.kind = "file"
           /\ last.res.kind # "redirect_login"

\* with authentication disabled, a page is served to a request bringing a
\* session cookie
C8_Witness ==
    /\ ~ENABLE_AUTHENTICATION
    /\ last.route \in {"index", "favicon"}
    /\ Truthy(last.cookie)
    /\ last.res.kind = "file"

\* the call is a /speak that ran the Authorization Check for a signed-in user
CheckedUser ==
    SpeakCall /\ ENABLE_AUTHENTICATION /\ HasUser(last.session) /\ last.res.checked

\* a silent refresh fails when the library fails or the cache holds no account
RefreshFailed(o) == o.kind = "fail" \/ LoadCache(last.session) = EmptyCache

ExpectedBasic ==
    IF RefreshFailed(last.inputs.b) THEN Get(last.session, "graph_access_token")
    ELSE last.inputs.b.access_token

ExpectedOther ==
    IF ~OTHER_AUTH_SCOPES THEN None
    ELSE IF RefreshFailed(last.inputs.o) THEN Get(last.session, "other_access_token")
    ELSE last.inputs.o.access_token

\* C9: with authentication enabled and a user in the session, the
\* Authorization Check returns authorized without raising whatever the silent
\* refreshes do; a failed basic refresh leaves the session's graph_access_token
\* as the basic token, a failed secondary refresh the session's
\* other_access_token; the access token returned is the secondary one when
\* there is one and the basic one otherwise.
C9_RefreshFallback ==
    CheckedUser
        => /\ ~last.res.raised
           /\ last.res.decision.authorized
           /\ last.res.decision.access_token =
                  IF Truthy(ExpectedOther) THEN ExpectedOther ELSE ExpectedBasic
           /\ RefreshFailed(last.inputs.b)
                 => Get(last.res.session, "graph_access_token")
                        = Get(last.session, "graph_access_token")
           /\ (OTHER_AUTH_SCOPES /\ ~RefreshFailed(last.inputs.o))
                 => Get(last.res.session, "other_access_token") = last.inputs.o.access_token

\* the basic refresh failed, the secondary one gave a token
C9_Witness ==
    /\ CheckedUser
    /\ OTHER_AUTH_SCOPES
    /\ RefreshFailed(last.inputs.b)
    /\ Truthy(Get(last.session, "graph_access_token"))
    /\ ~RefreshFailed(last.inputs.o)
    /\ last.res.decision.access_token = last.inputs.o.access_token

\* C10: with authentication enabled and a user in the session, a failed group
\* lookup neither raises nor refuses: the decision is authorized, with an
\* empty group list and the principal id, name and access token of the
\* session's user.
C10_GroupLookupFailure ==
    (CheckedUser /\ last.inputs.g = "fail")
        => /\ ~last.res.raised
           /\ last.res.status = 200
           /\ last.res.decision.authorized
           /\ last.res.decision.client_group_names = <<>>
           /\ last.res.decision.client_principal_id = last.session["user"].oid
           /\ last.res.decision.client_principal_name
                  = last.session["user"].preferred_username
           /\ last.res.decision.access_token =
                  IF Truthy(ExpectedOther) THEN ExpectedOther ELSE ExpectedBasic

\* the lookup was made, with a token, and failed
C10_Witness ==
    /\ CheckedUser
    /\ last.inputs.g = "fail"
    /\ Truthy(ExpectedBasic)
    /\ last.res.decision.client_group_names = <<>>

\* the silent refresh gives on `session` what it gives without its msal_cache
\* entry, and leaves `session` as it is
AsWithoutCache(session) ==
    \A o \in BasicOutcomes \cup OtherOutcomes :
        LET r == get_valid_access_token(session, o)
            n == get_valid_access_token(Pop(session, "msal_cache"), o)
        IN  /\ r.ok = n.ok
            /\ r.access_token = n.access_token
            /\ r.session = session

\* C11: with a malformed msal_cache blob in the session, _load_cache returns
\* the empty cache without raising; a silent refresh then ends as it does for
\* a session without msal_cache and leaves the blob in place; the blob is
\* replaced only where the cache reports a change, which is after a successful
\* code exchange.
C11_MalformedCache ==
    /\ \A p \in Procs :
          (req[p].pc = "handler" /\ Get(req[p].session, "msal_cache") = MalformedBlob)
              => /\ LoadCache(req[p].session) = EmptyCache
                 /\ AsWithoutCache(req[p].session)
    /\ (SpeakCall /\ Get(last.session, "msal_cache") = MalformedBlob)
          => /\ ~last.res.raised
             /\ last.res.session = last.session
    /\ (CallbackCall /\ Get(last.session, "msal_cache") = MalformedBlob)
          => IF last.inputs.x = "ok"
             THEN Get(last.res.session, "msal_cache") = ValidBlob
             ELSE last.res.session = last.session

\* a signed-in user's /speak ran its refreshes on a malformed blob and fell
\* back to the token stored in the session
C11_Witness ==
    /\ CheckedUser
    /\ Get(last.session, "msal_cache") = MalformedBlob
    /\ last.inputs.b.kind = "token"
    /\ last.res.decision.access_token = Get(last.session, "graph_access_token")
    /\ Get(last.res.session, "msal_cache") = MalformedBlob

ProtocolError ==
    /\ CallbackCall
    /\ ~HasUser(last.session)
    /\ \/ StateMismatch(last.inputs.q, last.session)
       \/ last.inputs.q.error
       \/ ~Truthy(last.inputs.q.code)
       \/ last.inputs.x = "error"

\* C13: a callback that ends in one of the four protocol errors answers 400
\* and returns the session mapping exactly as the request loaded it.
C13_ErrorKeepsSession ==
    ProtocolError
        => /\ ~last.res.raised
           /\ last.res.status = 400
           /\ last.res.session = last.session

\* an exchange ended in an error result on a session that holds a nonce
C13_Witness ==
    /\ ProtocolError
    /\ last.inputs.x = "error"
    /\ Truthy(Get(last.session, "state"))
    /\ last.res.kind = "exchange_error"

\* requests p and r overlap on one session: both have loaded its record and
\* neither has finished
Overlap(p, r) ==
    /\ p # r
    /\ req[p].pc = "write"
    /\ req[r].pc # "idle"
    /\ req[r].cookie = req[p].session_id

CallbackSucceeds ==
    /\ CallbackCall
    /\ ~HasUser(last.session)
    /\ ~StateMismatch(last.inputs.q, last.session)
    /\ ~last.inputs.q.error
    /\ Truthy(last.inputs.q.code)
    /\ last.inputs.x = "ok"

\* the callback answered with the redirect to the root, made no exchange and
\* returned the mapping it was given
RedirectedUntouched ==
    /\ ~last.res.raised
    /\ last.res.status = 303
    /\ last.res.kind = "redirect_root"
    /\ ~last.res.exchanged
    /\ last.res.session = last.session

\* another request on the session of the latest call is a callback that has
\* succeeded and is about to write its record
SucceededBefore ==
    \E r \in Procs \ {last.p} :
        /\ req[r].pc = "write"
        /\ req[r].route = "callback"
        /\ req[r].exchanged
        /\ HasUser(req[r].session)
        /\ req[r].session_id = last.cookie

\* C15 as stated: once a callback has succeeded on a session, every callback
\* that returns later on that session redirects to the root without an
\* exchange and without changing the session.
C15_AnyLaterCallback ==
    (CallbackCall /\ SucceededBefore) => RedirectedUntouched

\* C15, amended: a callback that succeeds leaves a session with user (oid and
\* preferred_username), graph_access_token and refresh_token and without
\* state; a callback whose request loaded a session that holds a user
\* redirects to the root without an exchange and without changing the session.
C15_SuccessThenGuard ==
    /\ CallbackSucceeds
          => /\ ~last.res.raised
             /\ last.res.status = 303
             /\ HasUser(last.res.session)
             /\ DOMAIN last.res.session["user"] = {"oid", "preferred_username"}
             /\ last.res.session["user"].oid = "oid1"
             /\ last.res.session["user"].preferred_username = "alice"
             /\ {"graph_access_token", "refresh_token"} \subseteq DOMAIN last.res.session
             /\ "state" \notin DOMAIN last.res.session
    /\ (CallbackCall /\ HasUser(last.session)) => RedirectedUntouched

\* the callback URL is replayed on the session its first use signed in
C15_Witness ==
    /\ CallbackCall
    /\ HasUser(last.session)
    /\ "graph_access_token" \in DOMAIN last.session
    /\ "state" \notin DOMAIN last.session
    /\ last.inputs.q.state \in Nonces
    /\ Truthy(last.inputs.q.code)
    /\ RedirectedUntouched

\* the texts of the frames of one kind, in the order the client received them
Texts(kind) ==
    LET picked == SelectSeq(gen.frames, LAMBDA f : f.kind = kind)
    IN  [i \in 1..Len(picked) |-> picked[i].text]

\* the lines the loop body has finished with: all those received, but for the
\* one in hand at lines 329-339
Handled ==
    IF gen.pc \in {"heartbeat", "line"}
    THEN SubSeq(gen.received, 1, Len(gen.received) - 1)
    ELSE gen.received

NonEmpty(line) == line # ""

\* the generator has ended only after the orchestrator ended its response and
\* every line it had emitted was received
EndsWithUpstream ==
    gen.pc = "done"
        => /\ upstream.closed
           /\ upstream.buffer = <<>>
           /\ Len(gen.received) = upstream.sent

\* C16 as stated: on a 200 answer the line frames are exactly the lines
\* received from the orchestrator, each once and in order, and the stream
\* ends when the orchestrator's response ends.
C16_EveryLineRelayed ==
    upstream.status = 200
        => /\ Texts("line") = Handled
           /\ EndsWithUpstream

\* C16, amended: on a 200 answer the line frames are exactly the non-empty
\* lines received from the orchestrator, each once and in order (an empty
\* line is received and dropped); the stream ends only after the
\* orchestrator's response has ended and all its lines were received, and
\* once the response has ended the stream does end.
C16_NonEmptyLinesRelayed ==
    /\ [](upstream.status = 200
            => /\ Texts("line") = SelectSeq(Handled, NonEmpty)
               /\ Texts("error") = <<>>
               /\ EndsWithUpstream)
    /\ (upstream.status = 200 /\ upstream.closed) ~> (gen.pc = "done")

\* the orchestrator sent an empty line between two lines, the response has
\* ended and so has the stream
C16_Witness ==
    /\ upstream.status = 200
    /\ gen.pc = "done"
    /\ gen.received = <<LineText(1), "">>
    /\ Texts("line") = <<LineText(1)>>

\* C17: when the orchestrator answers with a status other than 200, the
\* client stream is one error line carrying that status and then ends; no
\* line of the response is received or forwarded and no heartbeat is sent,
\* whatever the orchestrator goes on to send.
C17_ErrorLineOnly ==
    upstream.status \notin {0, 200}
        => /\ gen.pc = "done"
           /\ Len(gen.frames) = 1
           /\ gen.frames[1].kind = "error"
           /\ gen.frames[1].text = ErrorLine(upstream.status)
           /\ gen.received = <<>>
           /\ gen.hearbeatcount = 0

\* a 204 answer whose body lines wait unread after the stream has ended
C17_Witness ==
    /\ upstream.status = 204
    /\ upstream.buffer # <<>>
    /\ Head(upstream.buffer).text # ""
    /\ gen.pc = "done"
    /\ Texts("error") = <<"Error: 204">>

\* request p brought a cookie that names a record with content that is not
\* JSON, or no record at all
BadRecord(p) ==
    /\ req[p].pc = "handler"
    /\ Truthy(req[p].cookie)
    /\ files[req[p].cookie].kind # "json"

\* the step loads such a record for request p
LoadsBadRecord(p) ==
    /\ req[p].pc = "idle"
    /\ req'[p].pc = "handler"
    /\ Truthy(req'[p].cookie)
    /\ files[req'[p].cookie].kind # "json"

C19_NoNonceNoExchange ==
    (CallbackCall /\ ~Truthy(Get(last.session, "state")))
        => /\ ~last.res.exchanged
           /\ HasUser(last.res.session) => HasUser(last.session)

\* the keys that sign a session in
Credentials == {"user", "graph_access_token", "other_access_token", "refresh_token"}

\* C20: with authentication enabled, once a /logout has written the cleared
\* record, and until a callback succeeds, the record of the session holds
\* neither user nor any token.
C20_LogoutStays ==
    (ENABLE_AUTHENTICATION /\ loggedOut # "no")
        => \A i \in SessionIds :
              DOMAIN LoadSession(i, files) \cap Credentials = {}

====
